---- MODULE Spec2Model ----
(***************************************************************************)
(* Model of the backstage-jira-plugin:                                     *)
(*   - the backend Proxy Route  (jira-issues-backend/src/plugin.ts)        *)
(*   - the frontend Issue Card  (JiraIssuesCard, React component)          *)
(* The two run in different processes; each has its own specification      *)
(* (ProxySpec, Spec) over the variables of this one module.                *)
(*                                                                         *)
(* Modelling decisions:                                                    *)
(*  - a React commit and the effects it schedules are one step;            *)
(*  - state setters called for an unmounted instance do nothing;           *)
(*  - localStorage.getItem/setItem do not throw;                           *)
(*  - fetch(), response.text() and response.json() may reject.             *)
(***************************************************************************)
EXTENDS Integers, Sequences, FiniteSets, TLC

(***************************************************************************)
(* Bounds of the model (not program constants).                            *)
(***************************************************************************)
MaxRequests == 2
MaxTicks == 1
MaxFetches == 2
MaxMounts == 1
MaxEntityChanges == 1

(***************************************************************************)
(* Shared vocabulary: project keys, issues, JSON text.                     *)
(***************************************************************************)
ProjectKeys == {"ABC", "XYZ"}

\* JavaScript's undefined
Undefined == "undefined"

\* An issue as the card reads it: key plus the four optional name fields
\* (fields.issuetype?.name, fields.assignee?.displayName, ...).
Issue(p, n, t, a, s, pr) ==
    [key |-> <<p, n>>, issuetype |-> t, assignee |-> a, status |-> s, priority |-> pr]

\* Issue lists the upstream tracker can return for project p.
IssueLists(p) ==
    { << >>,
      << Issue(p, 1, "Bug", "alice", Undefined, Undefined),
         Issue(p, 2, "Story", Undefined, Undefined, Undefined) >>,
      << Issue(p, 3, Undefined, Undefined, "In Progress", "High") >> }

\* JSON values the upstream can send as a body for project p: a search
\* result with an issues array, or an object without one.
JsonValues(p) ==
    { [issues |-> l] : l \in IssueLists(p) } \cup { [errorMessages |-> "no issues field"] }

\* JSON.stringify / JSON.parse: a text is a tagged pair; only texts produced
\* by stringify parse.
JSONstringify(v) == << "json", v >>
IsJSON(text) == text[1] = "json"
JSONparse(text) == text[2]
RawText(s) == << "raw", s >>
\* the JSON text "null", and what reading a property of a parsed value gives
JsonNull == [jsonNull |-> TRUE]
HasProperty(v, name) == v # JsonNull /\ name \in DOMAIN v

(***************************************************************************)
(* State.                                                                  *)
(***************************************************************************)
VARIABLES
    \* ---- backend (plugin.ts)
    config,        \* rootConfig: which of the two integration strings are set
    requests,      \* requests handled by the router, in order of arrival
    \* ---- frontend (JiraIssuesCard)
    entity,        \* annotation 'jira/project-key' of the viewed entity
    mounted,       \* a component instance is mounted
    inst,          \* number of the current (or last) component instance
    issues,        \* useState: issues
    loading,       \* useState: loading
    lastUpdated,   \* useState: lastUpdated (0 models null)
    timeAgo,       \* useState: timeAgo
    selected,      \* useState: selectedType/Assignee/Status/Priority
    view,          \* what the last render returned
    localStorage,  \* browser storage: cache key -> item
    now,           \* Date.now()
    fetches,       \* calls of fetch() to the Proxy Route still in flight
    nextFetchId,   \* 1 + number of network calls made so far
    timers,        \* active setInterval timers
    nextTimerId,   \* id the next setInterval returns
    cleanup,       \* interval id the time-ago effect's cleanup clears (0: none)
    ev,            \* the operation that produced the current state
    ticks, entityChanges   \* counters for the bounds

proxyVars == << config, requests >>
cardVars == << entity, mounted, inst, issues, loading, lastUpdated, timeAgo, selected,
               view, localStorage, now, fetches, nextFetchId, timers, nextTimerId,
               cleanup, ev, ticks, entityChanges >>
vars == << proxyVars, cardVars >>

(***************************************************************************)
(* Backend: router of jiraIssuesBackendPlugin.                             *)
(***************************************************************************)
maxResults == 1000
STATUS_INTERNAL_ERROR == 500
STATUS_OK == 200

UpstreamStatuses == {200, 201, 401}

\* Response.ok of the Fetch API
ResponseOk(status) == status >= 200 /\ status <= 299

\* Bodies the upstream can send: JSON, text that is not JSON, or a body whose
\* stream breaks before it is read (text() and json() then reject).
BrokenBody == << "broken", "terminated" >>
UpstreamBodies(p) ==
    { JSONstringify([issues |-> << Issue(p, 1, "Bug", "alice", Undefined, Undefined) >>]),
      RawText("Unauthorized"),
      BrokenBody }

NoUpstream == [kind |-> "none", status |-> 0, body |-> RawText("")]
Rejected == [kind |-> "rejected", status |-> 0, body |-> RawText("")]
UpstreamResponse(status, body) == [kind |-> "response", status |-> status, body |-> body]

\* config.getString(key): throws when the key is missing
ConfigHas(key) == config[key] # Undefined

\* mutant: the catch block forgets res.status(500)
InternalError_NoStatus(message) ==
    [status |-> 200,
     body |-> JSONstringify([error |-> "Internal server error", message |-> message])]

\* res.status(500).json({error: 'Internal server error', message})
InternalError(message) ==
    [status |-> STATUS_INTERNAL_ERROR,
     body |-> JSONstringify([error |-> "Internal server error", message |-> message])]

\* mutant: the upstream error is reported as an internal error
UpstreamError_As500(status, errorText) ==
    [status |-> 500,
     body |-> JSONstringify([error |-> << "Jira API error: ", status >>, details |-> errorText])]

\* res.status(response.status).json({error: `Jira API error: ${status}`, details})
UpstreamError(status, errorText) ==
    [status |-> status,
     body |-> JSONstringify([error |-> << "Jira API error: ", status >>, details |-> errorText])]

\* mutant: the route answers with the issues only, not the upstream body
JsonReply_IssuesOnly(data) ==
    [status |-> 200, body |-> JSONstringify([issues |-> << >>])]

\* res.json(data): Express sends status 200 unless res.status() was called
JsonReply(data) ==
    [status |-> STATUS_OK, body |-> JSONstringify(data)]

\* the url and headers of the upstream call
UpstreamCall(projectKey) ==
    [base |-> config["integrations.jira.baseUrl"],
     path |-> "/rest/api/2/search",
     jql |-> << "project=", projectKey, " AND status NOT IN (Closed, Resolved, Done)" >>,
     maxResults |-> maxResults,
     authorization |-> << "Bearer ", config["integrations.jira.apiToken"] >>,
     accept |-> "application/json"]

NewRequest(route, projectKey) ==
    [route |-> route, projectKey |-> projectKey, pc |-> "start",
     calls |-> << >>, upstream |-> NoUpstream, responses |-> << >>]

Respond(r, reply) ==
    [r EXCEPT !.pc = "done", !.responses = Append(@, reply)]

\* router.get('/test'): fixed payload
TestRoute ==
    /\ Len(requests) < MaxRequests
    /\ requests' = Append(requests,
           Respond(NewRequest("/test", Undefined),
                   JsonReply([message |-> "Jira backend is working!"])))
    /\ UNCHANGED << config, cardVars >>

\* router.get('/issues/:projectKey'), up to the await of fetch(url)
IssuesRoute(projectKey) ==
    /\ Len(requests) < MaxRequests
    /\ LET r == NewRequest("/issues", projectKey) IN
       requests' = Append(requests,
         IF ~ConfigHas("integrations.jira.apiToken")
           THEN Respond(r, InternalError("Missing required config value at 'integrations.jira.apiToken'"))
         ELSE IF ~ConfigHas("integrations.jira.baseUrl")
           THEN Respond(r, InternalError("Missing required config value at 'integrations.jira.baseUrl'"))
         ELSE [r EXCEPT !.pc = "fetch", !.calls = Append(@, UpstreamCall(projectKey))])
    /\ UNCHANGED << config, cardVars >>

\* fetch(url) rejects: network error -> catch -> 500
FetchRejects(i) ==
    /\ requests[i].pc = "fetch"
    /\ requests' = [requests EXCEPT ![i] =
          Respond([@ EXCEPT !.upstream = Rejected], InternalError("fetch failed"))]
    /\ UNCHANGED << config, cardVars >>

\* fetch(url) resolves with a response; if (!response.ok) chooses the branch
FetchResolves(i, status, body) ==
    /\ requests[i].pc = "fetch"
    /\ requests' = [requests EXCEPT ![i] =
          [@ EXCEPT !.upstream = UpstreamResponse(status, body),
                    !.pc = IF ~ResponseOk(status) THEN "text" ELSE "json"]]
    /\ UNCHANGED << config, cardVars >>

\* await response.text() settles in the !response.ok branch
TextSettles(i) ==
    /\ requests[i].pc = "text"
    /\ LET up == requests[i].upstream IN
       requests' = [requests EXCEPT ![i] =
          IF up.body = BrokenBody
            THEN Respond(@, InternalError("terminated"))
            ELSE Respond(@, UpstreamError(up.status, up.body))]
    /\ UNCHANGED << config, cardVars >>

\* await response.json() settles on the success path
JsonSettles(i) ==
    /\ requests[i].pc = "json"
    /\ LET up == requests[i].upstream IN
       requests' = [requests EXCEPT ![i] =
          IF up.body = BrokenBody
            THEN Respond(@, InternalError("terminated"))
          ELSE IF ~IsJSON(up.body)
            THEN Respond(@, InternalError("Unexpected token in JSON"))
            ELSE Respond(@, JsonReply(JSONparse(up.body)))]
    /\ UNCHANGED << config, cardVars >>

(***************************************************************************)
(* Frontend: JiraIssuesCard.                                               *)
(***************************************************************************)
CACHE_DURATION == 3 * 60 * 60 * 1000
TIME_AGO_INTERVAL == 60000

\* steps by which the clock advances
TickSteps == {1, 2, TIME_AGO_INTERVAL}
\* Date.now() when the model starts; a snapshot left by an earlier session
\* was captured one millisecond less than CACHE_DURATION before
StartTime == CACHE_DURATION
EarlierCapture == StartTime - (CACHE_DURATION - 1)

FilterFields == {"issuetype", "assignee", "status", "priority"}
NoFilters == [f \in FilterFields |-> ""]

\* mutant: the cache key does not include the project key
CacheKey_NoProject(projectKey) == << "jira-issues-", "" >>

\* const cacheKey = `jira-issues-${projectKey}`
CacheKey(projectKey) == << "jira-issues-", projectKey >>
CacheKeys == { CacheKey(p) : p \in ProjectKeys }

\* localStorage.getItem returns null for a missing key
NullItem == << "null", "" >>

\* formatTimeAgo(timestamp), with Date.now() = t
formatTimeAgo(timestamp, t) ==
    LET seconds == (t - timestamp) \div 1000
        minutes == seconds \div 60
        hours == minutes \div 60
        days == hours \div 24
        s(n) == IF n > 1 THEN "s" ELSE ""
    IN  IF seconds < 60 THEN << 0, "just now", "" >>
        ELSE IF minutes < 60 THEN << minutes, " minute", s(minutes) >>
        ELSE IF hours < 24 THEN << hours, " hour", s(hours) >>
        ELSE << days, " day", s(days) >>

\* types / assignees / statuses / priorities: the distinct non-empty values
\* of one field over the loaded issues (the sort order is not modelled)
Vocabulary(iss, field) ==
    { iss[i][field] : i \in 1..Len(iss) } \ {Undefined, ""}

\* mutant: the assignee filter is tested against the wrong field
PassesFilters_WrongField(issue, sel) ==
    IF sel["issuetype"] # "" /\ issue["issuetype"] # sel["issuetype"] THEN FALSE
    ELSE IF sel["assignee"] # "" /\ issue["issuetype"] # sel["assignee"] THEN FALSE
    ELSE IF sel["status"] # "" /\ issue["status"] # sel["status"] THEN FALSE
    ELSE IF sel["priority"] # "" /\ issue["priority"] # sel["priority"] THEN FALSE
    ELSE TRUE

\* the predicate of issues.filter(...) in filteredIssues
PassesFilters(issue, sel) ==
    IF sel["issuetype"] # "" /\ issue["issuetype"] # sel["issuetype"] THEN FALSE
    ELSE IF sel["assignee"] # "" /\ issue["assignee"] # sel["assignee"] THEN FALSE
    ELSE IF sel["status"] # "" /\ issue["status"] # sel["status"] THEN FALSE
    ELSE IF sel["priority"] # "" /\ issue["priority"] # sel["priority"] THEN FALSE
    ELSE TRUE

RECURSIVE FilterSeq(_, _)
FilterSeq(iss, sel) ==
    IF iss = << >> THEN << >>
    ELSE IF PassesFilters(Head(iss), sel)
      THEN << Head(iss) >> \o FilterSeq(Tail(iss), sel)
      ELSE FilterSeq(Tail(iss), sel)

filteredIssues(iss, sel) == FilterSeq(iss, sel)

hasActiveFilters(sel) == \E f \in FilterFields : sel[f] # ""

\* what the component returns from render
Unmounted == [kind |-> "unmounted", data |-> << >>, refreshDisabled |-> TRUE]
\* render threw (issues.map of a value that is not an array): React removes
\* the component and the user sees the error
Crashed == [kind |-> "error", data |-> << >>, refreshDisabled |-> TRUE]
Render(projectKey, ld, iss, sel) ==
    IF projectKey = Undefined
      THEN [kind |-> "null", data |-> << >>, refreshDisabled |-> TRUE]
    ELSE IF ld /\ Len(iss) = 0
      THEN [kind |-> "progress", data |-> << >>, refreshDisabled |-> TRUE]
    ELSE [kind |-> "table", data |-> filteredIssues(iss, sel), refreshDisabled |-> ld]

\* the cache check of fetchIssues: the snapshot to use, or none
Snapshot(iss, timestamp) == [issues |-> iss, timestamp |-> timestamp]

\* mutant: the age test is <= instead of <
CacheIsValid_Inclusive(cached) ==
    IF cached = NullItem THEN FALSE
    ELSE IF ~IsJSON(cached) THEN FALSE
    ELSE IF JSONparse(cached) = JsonNull THEN FALSE
    ELSE IF ~HasProperty(JSONparse(cached), "timestamp") THEN FALSE
    ELSE now - JSONparse(cached).timestamp <= CACHE_DURATION

\* mutant: the duration is computed in seconds
CacheIsValid_Seconds(cached) ==
    IF cached = NullItem THEN FALSE
    ELSE IF ~IsJSON(cached) THEN FALSE
    ELSE IF JSONparse(cached) = JsonNull THEN FALSE
    ELSE IF ~HasProperty(JSONparse(cached), "timestamp") THEN FALSE
    ELSE now - JSONparse(cached).timestamp < 3 * 60 * 60

\* getItem gives null: miss; JSON.parse throws: caught, miss; the parsed
\* value is null: reading .timestamp throws, caught, miss; it has no
\* timestamp: the age is NaN and NaN < CACHE_DURATION is false, miss
CacheIsValid(cached) ==
    IF cached = NullItem THEN FALSE
    ELSE IF ~IsJSON(cached) THEN FALSE
    ELSE IF JSONparse(cached) = JsonNull THEN FALSE
    ELSE IF ~HasProperty(JSONparse(cached), "timestamp") THEN FALSE
    ELSE now - JSONparse(cached).timestamp < CACHE_DURATION

\* mutant: forceRefresh is not consulted
CacheHit_IgnoresForce(projectKey, forceRefresh) ==
    /\ projectKey # Undefined
    /\ CacheIsValid(localStorage[CacheKey(projectKey)])

CacheHit(projectKey, forceRefresh) ==
    /\ projectKey # Undefined
    /\ ~forceRefresh
    /\ CacheIsValid(localStorage[CacheKey(projectKey)])

\* replies the card's fetch() can see from the Proxy Route for project p
NetworkError == [status |-> 0, body |-> RawText("Failed to fetch")]
CardReplies(p) ==
    { JsonReply(v) : v \in JsonValues(p) }
      \cup { UpstreamError(401, RawText("Unauthorized")),
             InternalError("fetch failed"),
             [status |-> STATUS_OK, body |-> RawText("<html>")],
             NetworkError }

\* mutant: res.ok is not tested
ReplyUsable_NoOkTest(reply) == IsJSON(reply.body)

\* res.ok and res.json() both succeed
ReplyUsable(reply) == ResponseOk(reply.status) /\ IsJSON(reply.body)
\* data.issues || []
FetchedIssues(reply) ==
    LET data == JSONparse(reply.body)
    IN IF "issues" \in DOMAIN data THEN data.issues ELSE << >>

\* setIssues(cachedData.issues) with a stored value that has a timestamp but
\* no issues: issues is undefined and the next render throws at issues.map
RenderThrows(projectKey, forceRefresh) ==
    /\ CacheHit(projectKey, forceRefresh)
    /\ ~HasProperty(JSONparse(localStorage[CacheKey(projectKey)]), "issues")

\* the record of the last operation: which one, the fetch and project it
\* concerns, whether it made a network call or used the cache, and for a
\* settled fetch the reply it saw
NoReply == [status |-> 0, body |-> RawText("")]
Event(op, fid, projectKey, net, hit) ==
    [op |-> op, fid |-> fid, key |-> projectKey, inst |-> 0, net |-> net, hit |-> hit,
     force |-> FALSE, outOfOrder |-> FALSE, overYoung |-> FALSE, reply |-> NoReply]

\* mutant: the effect returns no cleanup, the old interval keeps running
TimeAgoEffect_NoCleanup(lu) ==
    IF lu = lastUpdated
      THEN UNCHANGED << timeAgo, timers, nextTimerId, cleanup >>
      ELSE IF lu = 0
             THEN /\ cleanup' = 0
                  /\ UNCHANGED << timeAgo, timers, nextTimerId >>
             ELSE /\ timeAgo' = formatTimeAgo(lu, now)
                  /\ timers' = timers \cup
                        { [id |-> nextTimerId, ts |-> lu, last |-> now] }
                  /\ cleanup' = nextTimerId
                  /\ nextTimerId' = nextTimerId + 1

\* the time-ago effect, run after a render in which lastUpdated became lu
TimeAgoEffect(lu) ==
    IF lu = lastUpdated
      THEN UNCHANGED << timeAgo, timers, nextTimerId, cleanup >>
      ELSE LET cleared == { t \in timers : t.id # cleanup } IN
           IF lu = 0
             THEN /\ timers' = cleared
                  /\ cleanup' = 0
                  /\ UNCHANGED << timeAgo, nextTimerId >>
             ELSE /\ timeAgo' = formatTimeAgo(lu, now)
                  /\ timers' = cleared \cup
                        { [id |-> nextTimerId, ts |-> lu, last |-> now] }
                  /\ cleanup' = nextTimerId
                  /\ nextTimerId' = nextTimerId + 1

\* the component goes away: effect cleanups run, its state is gone
Teardown(v) ==
    /\ timers' = { t \in timers : t.id # cleanup }
    /\ cleanup' = 0
    /\ issues' = << >>
    /\ loading' = TRUE
    /\ lastUpdated' = 0
    /\ timeAgo' = << 0, "", "" >>
    /\ selected' = NoFilters
    /\ view' = v
    /\ UNCHANGED nextTimerId

\* state updates of one event handler, the effects and the render they cause
Commit(projectKey, iss, ld, lu, sel) ==
    /\ issues' = iss
    /\ loading' = ld
    /\ lastUpdated' = lu
    /\ selected' = sel
    /\ TimeAgoEffect(lu)
    /\ view' = Render(projectKey, ld, iss, sel)

\* fetchIssues(forceRefresh) of the render with the given projectKey, up to
\* its first await
fetchIssues(op, instance, projectKey, forceRefresh) ==
    IF projectKey = Undefined
      THEN /\ Commit(projectKey, issues, loading, lastUpdated, selected)
           /\ ev' = Event(op, 0, projectKey, FALSE, FALSE)
           /\ UNCHANGED << fetches, nextFetchId >>
    ELSE IF CacheHit(projectKey, forceRefresh)
      THEN LET cachedData == JSONparse(localStorage[CacheKey(projectKey)]) IN
           /\ IF HasProperty(cachedData, "issues")
                THEN Commit(projectKey, cachedData.issues, FALSE, cachedData.timestamp,
                            selected)
                ELSE Teardown(Crashed)
           /\ ev' = Event(op, 0, projectKey, FALSE, TRUE)
           /\ UNCHANGED << fetches, nextFetchId >>
    ELSE /\ nextFetchId <= MaxFetches
         /\ Commit(projectKey, issues, TRUE, lastUpdated, selected)
         /\ fetches' = fetches \cup
              { [id |-> nextFetchId, inst |-> instance, projectKey |-> projectKey,
                 cacheKey |-> CacheKey(projectKey), force |-> forceRefresh] }
         /\ nextFetchId' = nextFetchId + 1
         /\ ev' = [Event(op, nextFetchId, projectKey, TRUE, FALSE) EXCEPT
                      !.force = forceRefresh, !.inst = instance]

\* the component is mounted: initial state, then the initial-fetch effect
Mount ==
    /\ ~mounted
    /\ inst < MaxMounts
    /\ mounted' = ~RenderThrows(entity, FALSE)
    /\ inst' = inst + 1
    /\ fetchIssues("mount", inst + 1, entity, FALSE)
    /\ UNCHANGED proxyVars
    /\ UNCHANGED << entity, localStorage, now, ticks, entityChanges >>

\* the component is torn down: effect cleanups run, its state is gone
Unmount ==
    /\ mounted
    /\ mounted' = FALSE
    /\ Teardown(Unmounted)
    /\ ev' = Event("unmount", 0, entity, FALSE, FALSE)
    /\ UNCHANGED proxyVars
    /\ UNCHANGED << entity, inst, localStorage, now, fetches, nextFetchId,
                    ticks, entityChanges >>

\* the viewed entity changes: projectKey changes, fetchIssues is a new
\* callback and the initial-fetch effect runs again
ChangeEntity(projectKey) ==
    /\ projectKey # entity
    /\ entityChanges < MaxEntityChanges
    /\ entity' = projectKey
    /\ entityChanges' = entityChanges + 1
    /\ IF mounted
         THEN /\ fetchIssues("entity", inst, projectKey, FALSE)
              /\ mounted' = ~RenderThrows(projectKey, FALSE)
         ELSE /\ ev' = Event("entity", 0, projectKey, FALSE, FALSE)
              /\ UNCHANGED << mounted, issues, loading, lastUpdated, timeAgo, selected,
                              view, fetches, nextFetchId, timers, nextTimerId, cleanup >>
    /\ UNCHANGED proxyVars
    /\ UNCHANGED << inst, localStorage, now, ticks >>

\* click on Refresh: handleRefresh -> fetchIssues(true)
handleRefresh ==
    /\ mounted
    /\ view.kind = "table"
    /\ ~view.refreshDisabled
    /\ fetchIssues("refresh", inst, entity, TRUE)
    /\ UNCHANGED proxyVars
    /\ UNCHANGED << entity, mounted, inst, localStorage, now, ticks, entityChanges >>

\* mutant: only the continuation of the request issued last sets state
Applies_LastIssued(f) == mounted /\ f.inst = inst /\ f.id = nextFetchId - 1

\* a state setter called from the continuation of fetch f acts on the
\* instance that started f, if it is still mounted
Applies(f) == mounted /\ f.inst = inst

\* the awaited fetch of fetchIssues settles with a reply
FetchCompletes(f, reply) ==
    LET later == { j \in (f.id + 1)..(nextFetchId - 1) : \A g \in fetches : g.id # j }
        e == [Event("settle", f.id, f.projectKey, FALSE, FALSE) EXCEPT
                !.force = f.force, !.inst = f.inst, !.outOfOrder = later # {},
                !.overYoung = CacheIsValid(localStorage[f.cacheKey]),
                !.reply = reply]
    IN
    /\ f \in fetches
    /\ fetches' = fetches \ {f}
    /\ ev' = e
    /\ IF ReplyUsable(reply)
         THEN LET fetchedIssues == FetchedIssues(reply)
                  timestamp == now
              IN /\ IF Applies(f)
                      THEN Commit(entity, fetchedIssues, FALSE, timestamp, selected)
                      ELSE UNCHANGED << issues, loading, lastUpdated, timeAgo, selected,
                                        view, timers, nextTimerId, cleanup >>
                 /\ localStorage' = [localStorage EXCEPT ![f.cacheKey] =
                        JSONstringify(Snapshot(fetchedIssues, timestamp))]
         ELSE /\ IF Applies(f)
                   THEN Commit(entity, issues, FALSE, lastUpdated, selected)
                   ELSE UNCHANGED << issues, loading, lastUpdated, timeAgo, selected,
                                     view, timers, nextTimerId, cleanup >>
              /\ UNCHANGED localStorage
    /\ UNCHANGED proxyVars
    /\ UNCHANGED << entity, mounted, inst, now, nextFetchId, ticks, entityChanges >>

\* a filter Select changes: setSelectedType(e.target.value) and the like
SelectFilter(field, value) ==
    /\ mounted
    /\ view.kind = "table"
    /\ value \in Vocabulary(issues, field) \cup {""}
    /\ value # selected[field]
    /\ Commit(entity, issues, loading, lastUpdated, [selected EXCEPT ![field] = value])
    /\ ev' = Event("select", 0, entity, FALSE, FALSE)
    /\ UNCHANGED proxyVars
    /\ UNCHANGED << entity, mounted, inst, localStorage, now, fetches, nextFetchId,
                    ticks, entityChanges >>

\* click on Clear Filters
handleClearFilters ==
    /\ mounted
    /\ view.kind = "table"
    /\ hasActiveFilters(selected)
    /\ Commit(entity, issues, loading, lastUpdated, NoFilters)
    /\ ev' = Event("clear", 0, entity, FALSE, FALSE)
    /\ UNCHANGED proxyVars
    /\ UNCHANGED << entity, mounted, inst, localStorage, now, fetches, nextFetchId,
                    ticks, entityChanges >>

\* the interval callback updateTimeAgo of timer t runs
updateTimeAgo(t) ==
    /\ t \in timers
    /\ now >= t.last + TIME_AGO_INTERVAL
    /\ timeAgo' = formatTimeAgo(t.ts, now)
    /\ timers' = (timers \ {t}) \cup { [t EXCEPT !.last = now] }
    /\ ev' = Event("timer", 0, entity, FALSE, FALSE)
    /\ UNCHANGED proxyVars
    /\ UNCHANGED << entity, mounted, inst, issues, loading, lastUpdated, selected, view,
                    localStorage, now, fetches, nextFetchId, nextTimerId, cleanup,
                    ticks, entityChanges >>

\* time passes
Tick(d) ==
    /\ ticks < MaxTicks
    /\ now' = now + d
    /\ ticks' = ticks + 1
    /\ ev' = Event("tick", 0, entity, FALSE, FALSE)
    /\ UNCHANGED proxyVars
    /\ UNCHANGED << entity, mounted, inst, issues, loading, lastUpdated, timeAgo, selected,
                    view, localStorage, fetches, nextFetchId, timers, nextTimerId,
                    cleanup, entityChanges >>

\* items another session may have left in the storage
StoredItems(p) ==
    { NullItem, RawText("not json"),
      JSONstringify(JsonNull),
      JSONstringify([version |-> 2]),
      JSONstringify([timestamp |-> EarlierCapture]) }
      \cup { JSONstringify(Snapshot(l, EarlierCapture)) : l \in IssueLists(p) \ {<< >>} }

CardIdle ==
    /\ mounted = FALSE
    /\ inst = 0
    /\ issues = << >>
    /\ loading = TRUE
    /\ lastUpdated = 0
    /\ timeAgo = << 0, "", "" >>
    /\ selected = NoFilters
    /\ view = Unmounted
    /\ now = StartTime
    /\ fetches = {}
    /\ nextFetchId = 1
    /\ timers = {}
    /\ nextTimerId = 1
    /\ cleanup = 0
    /\ ticks = 0
    /\ entityChanges = 0

Init ==
    /\ config = [k \in {"integrations.jira.apiToken", "integrations.jira.baseUrl"} |-> "set"]
    /\ requests = << >>
    /\ entity \in ProjectKeys \cup {Undefined}
    /\ localStorage \in { ls \in [CacheKeys -> UNION { StoredItems(p) : p \in ProjectKeys }] :
                            \A p \in ProjectKeys : ls[CacheKey(p)] \in StoredItems(p) }
    /\ ev = Event("init", 0, entity, FALSE, FALSE)
    /\ CardIdle

Next ==
    \/ Mount
    \/ Unmount
    \/ \E p \in ProjectKeys \cup {Undefined} : ChangeEntity(p)
    \/ handleRefresh
    \/ \E f \in fetches : \E reply \in CardReplies(f.projectKey) : FetchCompletes(f, reply)
    \/ \E field \in FilterFields : \E value \in Vocabulary(issues, field) \cup {""} :
         SelectFilter(field, value)
    \/ handleClearFilters
    \/ \E t \in timers : updateTimeAgo(t)
    \/ \E d \in TickSteps : Tick(d)

Spec == Init /\ [][Next]_vars

(***************************************************************************)
(* Backend specification.                                                  *)
(***************************************************************************)
ConfigValues ==
    [ {"integrations.jira.apiToken", "integrations.jira.baseUrl"} -> {Undefined, "set"} ]

ProxyInit ==
    /\ config \in ConfigValues
    /\ requests = << >>
    /\ entity = Undefined
    /\ localStorage = [k \in CacheKeys |-> NullItem]
    /\ ev = Event("init", 0, Undefined, FALSE, FALSE)
    /\ CardIdle

FetchSettles(i) ==
    \/ FetchRejects(i)
    \/ \E st \in UpstreamStatuses :
         \E b \in UpstreamBodies(requests[i].projectKey) : FetchResolves(i, st, b)

ProxyNext ==
    \/ TestRoute
    \/ \E p \in ProjectKeys : IssuesRoute(p)
    \/ \E i \in 1..Len(requests) : FetchSettles(i)
    \/ \E i \in 1..Len(requests) : TextSettles(i)
    \/ \E i \in 1..Len(requests) : JsonSettles(i)

ProxySpec == ProxyInit /\ [][ProxyNext]_vars

\* Every promise the handler awaits settles (the runtime's fetch times out):
\* while some request awaits one, one of them settles.
FairProxySpec ==
    /\ ProxySpec
    /\ WF_vars(\E i \in 1..Len(requests) : FetchSettles(i))
    /\ WF_vars(\E i \in 1..Len(requests) : TextSettles(i))
    /\ WF_vars(\E i \in 1..Len(requests) : JsonSettles(i))

(***************************************************************************)
(* Properties of the Proxy Route (of ProxySpec and FairProxySpec).         *)
(***************************************************************************)
IssuesRequests == { i \in 1..Len(requests) : requests[i].route = "/issues" }
Answered(r) == r.pc = "done"
UpstreamSucceeded(r) ==
    /\ r.upstream.kind = "response"
    /\ r.upstream.status \in 200..299
UpstreamFailedStatus(r) ==
    /\ r.upstream.kind = "response"
    /\ r.upstream.status \notin 200..299
BodyIsJson(r) == r.upstream.body[1] = "json"
BodyWasRead(r) == r.upstream.body[1] # "broken"

ErrorBodyOf(reply) == reply.body[2]

\* C5 as claimed: whenever the upstream call returns a non-success status S,
\* the route answers with status S and an error body holding the upstream
\* status and the upstream response text; never with 500 or 200.
C5_RelaysUpstreamError ==
    \A i \in IssuesRequests :
        LET r == requests[i] IN
        (Answered(r) /\ UpstreamFailedStatus(r))
            => /\ Len(r.responses) = 1
               /\ r.responses[1].status = r.upstream.status
               /\ ErrorBodyOf(r.responses[1]) =
                     [error |-> << "Jira API error: ", r.upstream.status >>,
                      details |-> r.upstream.body]

\* C5 amended: whenever the upstream call returns a non-success status S and
\* its body text can be read, the route answers with status S and an error
\* body holding the upstream status and the upstream response text; if
\* reading the body text fails, the route answers 500 with a message.
C5_RelaysReadableUpstreamError ==
    \A i \in IssuesRequests :
        LET r == requests[i] IN
        (Answered(r) /\ UpstreamFailedStatus(r))
            => /\ Len(r.responses) = 1
               /\ IF BodyWasRead(r)
                    THEN /\ r.responses[1].status = r.upstream.status
                         /\ ErrorBodyOf(r.responses[1]) =
                               [error |-> << "Jira API error: ", r.upstream.status >>,
                                details |-> r.upstream.body]
                    ELSE /\ r.responses[1].status = 500
                         /\ "message" \in DOMAIN ErrorBodyOf(r.responses[1])

C5_Witness ==
    \E i \in IssuesRequests :
        /\ Answered(requests[i])
        /\ requests[i].upstream.kind = "response"
        /\ requests[i].upstream.status = 401
        /\ requests[i].upstream.body = << "raw", "Unauthorized" >>
        /\ requests[i].responses[1].status = 401

ConfigMissing ==
    \E k \in DOMAIN config : config[k] = "undefined"

\* a failure that is not an upstream non-success status
OtherFailure(r) ==
    \/ ConfigMissing
    \/ r.upstream.kind = "rejected"
    \/ r.upstream.kind = "response" /\ ~BodyWasRead(r)
    \/ UpstreamSucceeded(r) /\ ~BodyIsJson(r)

C6_Safety ==
    \A i \in IssuesRequests :
        LET r == requests[i] IN
        /\ Len(r.responses) <= 1
        /\ Answered(r) <=> Len(r.responses) = 1
        /\ ConfigMissing => r.calls = << >>
        /\ Len(r.calls) <= 1
        /\ (Answered(r) /\ OtherFailure(r))
              => /\ r.responses[1].status = 500
                 /\ r.responses[1].body[1] = "json"
                 /\ DOMAIN ErrorBodyOf(r.responses[1]) = {"error", "message"}

\* C6: a request that fails for a reason other than an upstream non-success
\* status (missing token or base URL, network error, body that cannot be
\* read or parsed) is answered with 500 and an error body with a message;
\* no request is answered twice, every request is answered, and with the
\* configuration missing no upstream call is made.
C6_OtherFailuresGive500 ==
    /\ []C6_Safety
    /\ []<>(\A i \in 1..Len(requests) : Answered(requests[i]))

C6_Witness ==
    /\ ConfigMissing
    /\ \E i \in IssuesRequests :
          Answered(requests[i]) /\ requests[i].responses[1].status = 500
    /\ Len(requests) = MaxRequests

(***************************************************************************)
(* Properties of the Issue Card (of Spec).                                 *)
(***************************************************************************)
ThreeHours == 10800000
OneMinute == 60000

\* the issues of iss that match every non-empty filter of sel
Matches(issue, sel) ==
    \A f \in FilterFields :
        sel[f] = "" \/ (issue[f] # "undefined" /\ issue[f] = sel[f])
Restricted(iss, sel) == SelectSeq(iss, LAMBDA x : Matches(x, sel))

\* the stored item parses to a value with a capture timestamp; it is a
\* snapshot when it has the issue list too
HasAge(item) == item[1] = "json" /\ "timestamp" \in DOMAIN item[2]
IsSnapshot(item) == item[1] = "json" /\ DOMAIN item[2] = {"issues", "timestamp"}
AgeOf(item) == now - item[2].timestamp

\* the last step loaded the card: mount, or change of the viewed entity
Loaded(e) == e.op \in {"mount", "entity"} /\ e.key # "undefined"
\* the last step settled a fetch with a usable / a failed reply
SettledOk(e) ==
    e.op = "settle" /\ e.reply.status \in 200..299 /\ e.reply.body[1] = "json"
SettledFailed(e) ==
    e.op = "settle" /\ ~(e.reply.status \in 200..299 /\ e.reply.body[1] = "json")
IssuesOf(reply) ==
    IF "issues" \in DOMAIN reply.body[2] THEN reply.body[2].issues ELSE << >>

C1_Step ==
    (/\ Loaded(ev') /\ mounted'
     /\ IsSnapshot(localStorage[<< "jira-issues-", ev'.key >>])
     /\ AgeOf(localStorage[<< "jira-issues-", ev'.key >>]) < ThreeHours)
    => LET snap == localStorage[<< "jira-issues-", ev'.key >>][2] IN
       /\ nextFetchId' = nextFetchId
       /\ fetches' = fetches
       /\ issues' = snap.issues
       /\ lastUpdated' = snap.timestamp
       /\ view'.kind = "table"
       /\ view'.data = Restricted(snap.issues, selected')

\* C1: loading the card for a project whose stored snapshot is younger than
\* three hours makes no network call and displays the snapshot's issues
\* restricted by the active filter selections.
C1_YoungSnapshotIsUsed == [][C1_Step]_vars

C1_Witness ==
    /\ ev.op = "entity" /\ ev.hit /\ ~ev.net /\ mounted
    /\ hasActiveFilters(selected)
    /\ Len(view.data) > 0
    /\ Len(view.data) < Len(issues)

C2_Step ==
    /\ ev'.op = "refresh"
         => /\ nextFetchId' = nextFetchId + 1
            /\ \E f \in fetches' \ fetches :
                 f.projectKey = entity /\ f.id = nextFetchId
            /\ loading'
    /\ (SettledOk(ev') /\ ev'.force)
         => /\ localStorage'[<< "jira-issues-", ev'.key >>] =
                 << "json", [issues |-> IssuesOf(ev'.reply), timestamp |-> now] >>
            /\ \A k \in DOMAIN localStorage \ {<< "jira-issues-", ev'.key >>} :
                 localStorage'[k] = localStorage[k]

\* C2: a manual refresh always makes a network call, whatever the cache
\* holds, and when it succeeds the cache entry of that project becomes the
\* newly fetched issues with the time of the response as capture timestamp.
C2_RefreshHitsNetwork == [][C2_Step]_vars

C2_Witness ==
    /\ SettledOk(ev) /\ ev.force /\ ev.overYoung
    /\ localStorage[<< "jira-issues-", ev.key >>][2].timestamp = now
    /\ IssuesOf(ev.reply) # << >>

C3_Step ==
    /\ (/\ Loaded(ev') /\ mounted'
        /\ IsSnapshot(localStorage[<< "jira-issues-", ev'.key >>])
        /\ AgeOf(localStorage[<< "jira-issues-", ev'.key >>]) >= ThreeHours)
       => /\ nextFetchId' = nextFetchId + 1
          /\ \E f \in fetches' \ fetches : f.projectKey = ev'.key
          /\ issues' = issues
          /\ lastUpdated' = lastUpdated
          /\ loading'
    /\ ev'.hit
       => /\ HasAge(localStorage[<< "jira-issues-", ev'.key >>])
          /\ AgeOf(localStorage[<< "jira-issues-", ev'.key >>]) < ThreeHours

\* C3: loading the card for a project whose stored snapshot is three hours
\* old or older makes a network call and does not use the snapshot; a
\* snapshot is used only when its age is strictly below three hours.
C3_OldSnapshotIsRefetched == [][C3_Step]_vars

C3_Witness ==
    /\ Loaded(ev) /\ ev.net /\ mounted
    /\ IsSnapshot(localStorage[<< "jira-issues-", ev.key >>])
    /\ AgeOf(localStorage[<< "jira-issues-", ev.key >>]) = ThreeHours + 1

\* C7: whenever the table is shown, its rows are the loaded issues that
\* match every non-empty filter by equality on the field (an issue without
\* the field does not match); with no filter set they are the loaded issues,
\* in particular right after Clear Filters.
C7_DisplayedIsFiltered ==
    /\ view.kind = "table" => view.data = Restricted(issues, selected)
    /\ (view.kind = "table" /\ \A f \in FilterFields : selected[f] = "")
          => view.data = issues
    /\ ev.op = "clear" => (view.data = issues /\ \A f \in FilterFields : selected[f] = "")

C7_Witness ==
    /\ view.kind = "table"
    /\ selected["assignee"] # ""
    /\ \E i \in 1..Len(issues) : issues[i]["assignee"] = "undefined"
    /\ Len(view.data) = 1
    /\ Len(issues) = 2

C8_Step ==
    SettledFailed(ev')
    => /\ issues' = issues
       /\ lastUpdated' = lastUpdated
       /\ localStorage' = localStorage
       /\ nextFetchId' = nextFetchId
       /\ fetches' = { f \in fetches : f.id # ev'.fid }
       /\ (mounted /\ ev'.inst = inst) => (~loading' /\ view'.kind # "progress")

\* C8: a fetch that fails (non-success status, network error, body that is
\* not JSON) leaves the issue list, the last-updated timestamp and the cache
\* unchanged, starts no new request, and leaves the card not loading.
C8_FailedFetchKeepsState == [][C8_Step]_vars

C8_Witness ==
    /\ SettledFailed(ev) /\ ev.force
    /\ mounted /\ ev.inst = inst
    /\ issues # << >> /\ lastUpdated # 0 /\ ~loading
    /\ view.kind = "table"

C9_Step ==
    /\ SettledOk(ev')
         => /\ localStorage'[<< "jira-issues-", ev'.key >>] =
                 << "json", [issues |-> IssuesOf(ev'.reply), timestamp |-> now] >>
            /\ (mounted /\ ev'.inst = inst)
                 => (issues' = IssuesOf(ev'.reply) /\ lastUpdated' = now)
    /\ \A f \in fetches :
          f \in fetches' \/ (ev'.op = "settle" /\ ev'.fid = f.id)

\* C9: no fetch in flight is ever cancelled, and every successful response
\* overwrites the issue list and the cache entry of its project when it
\* arrives, also when a request issued after it was answered before it: the
\* last response to arrive wins.
C9_LastResponseWins == [][C9_Step]_vars

C9_Witness ==
    /\ SettledOk(ev) /\ ev.outOfOrder
    /\ mounted /\ ev.inst = inst
    /\ fetches = {}
    /\ issues = IssuesOf(ev.reply) /\ issues # << >>

C10_Timers ==
    /\ Cardinality(timers) <= 1
    /\ \A t \in timers : mounted /\ lastUpdated # 0 /\ t.ts = lastUpdated
    /\ ~mounted => timers = {}
    /\ (mounted /\ lastUpdated # 0) => timers # {}

C10_Step ==
    ev'.op = "timer"
    => \E t \in timers :
         /\ now - t.last >= OneMinute
         /\ t.ts = lastUpdated
         /\ timeAgo' = formatTimeAgo(lastUpdated, now)

\* C10: the relative-time timer exists exactly while the mounted component
\* has a last-updated timestamp; there is never more than one, it is the one
\* set for the current timestamp, its callback runs no sooner than a minute
\* after it was set or last ran, and none is left after unmount.
C10_OneTimerForCurrentTimestamp == []C10_Timers /\ [][C10_Step]_vars

C10_Witness ==
    /\ ~mounted
    /\ nextTimerId > 2
    /\ timers = {}

\* the last step loaded the card of a mounted component
LoadStep == (ev'.op = "mount" \/ (ev'.op = "entity" /\ mounted)) /\ ev'.key # "undefined"

C11_Step ==
    (/\ LoadStep
     /\ localStorage[<< "jira-issues-", ev'.key >>] # << "null", "" >>
     /\ ~IsSnapshot(localStorage[<< "jira-issues-", ev'.key >>]))
    => /\ nextFetchId' = nextFetchId + 1
       /\ \E f \in fetches' \ fetches : f.projectKey = ev'.key
       /\ loading'
       /\ issues' = issues
       /\ lastUpdated' = lastUpdated
       /\ mounted'
       /\ view'.kind \in {"progress", "table"}

\* C11: loading the card for a project whose stored entry exists but does not
\* parse, or parses to something that is not a snapshot, makes a network
\* call, shows no error, and takes neither issues nor timestamp from the
\* entry.
C11_CorruptEntryIsMiss == [][C11_Step]_vars

C12_Step ==
    /\ DOMAIN localStorage' = DOMAIN localStorage
    /\ \A k \in DOMAIN localStorage :
          /\ localStorage[k] # << "null", "" >> => localStorage'[k] # << "null", "" >>
          /\ localStorage'[k] # localStorage[k]
               => /\ SettledOk(ev')
                  /\ \E f \in fetches \ fetches' :
                        f.id = ev'.fid /\ k = << "jira-issues-", f.projectKey >>
                  /\ localStorage'[k] =
                        << "json", [issues |-> IssuesOf(ev'.reply), timestamp |-> now] >>
    /\ ev'.op \in {"mount", "entity", "refresh", "unmount", "select", "clear", "timer", "tick"}
          => localStorage' = localStorage
    /\ SettledFailed(ev') => localStorage' = localStorage

\* C12: a cache entry is created or changed only when a fetch completes
\* successfully, and then it is the entry of the project that fetch was made
\* for; no entry is ever deleted; mounts, cache hits, refresh clicks, failed
\* fetches, filter changes and unmount leave every entry as it was.
C12_CacheChangesOnlyOnSuccess == [][C12_Step]_vars

C12_Witness ==
    /\ SettledOk(ev) /\ ~mounted
    /\ ev.key # entity
    /\ ev.overYoung
    /\ localStorage[<< "jira-issues-", ev.key >>] =
          << "json", [issues |-> IssuesOf(ev.reply), timestamp |-> now] >>

\* the values of one field that some loaded issue has
ValuesOf(iss, field) == { iss[i][field] : i \in 1..Len(iss) } \ {"undefined", ""}

\* C13: every non-empty filter selection is a value that some issue of the
\* currently loaded list has in that field; so with a non-empty list and a
\* filter set on one field only, the table is never empty.
C13_SelectionsInVocabulary ==
    \A f \in FilterFields : selected[f] = "" \/ selected[f] \in ValuesOf(issues, f)

\* the card is on screen (progress indicator or table)
CardShown == mounted /\ view.kind \in {"progress", "table"}
InFlight == { f \in fetches : f.inst = inst }

\* C14: while the card is shown, loading is true exactly when a network
\* fetch of the component is in flight; in particular the Refresh button is
\* never enabled during a fetch and loading is false once none is left,
\* also when the project key changed while a fetch was in flight.
C14_LoadingIffInFlight ==
    CardShown => /\ loading <=> InFlight # {}
                 /\ (view.kind = "table" /\ ~view.refreshDisabled) => InFlight = {}

\* C15: whenever the card shows issues, every loaded and every displayed
\* issue belongs to the project key of the entity being viewed (issues and
\* last-updated timestamp are set together, from one fetch or snapshot).
C15_ShownIssuesAreOfCurrentKey ==
    (mounted /\ view.kind = "table")
       => /\ \A i \in 1..Len(issues) : issues[i].key[1] = entity
          /\ \A i \in 1..Len(view.data) : view.data[i].key[1] = entity

====
